---- MODULE Spec2Model ----
(***************************************************************************)
(* Model of firmware/examples/Leguiza_Perez/main/Leguiza_Perez.c: the EMG  *)
(* circular buffer written by the timer ISR, the window snapshot, the      *)
(* spectral median and the baseline / fatigue classifier of EMGTask, the   *)
(* BLE command callback read_data and the start-up order of app_main.      *)
(*                                                                         *)
(* Numbers.  Samples are identified by the index of the write that stored  *)
(* them (the k-th execution of the ISR stores k): the buffer code never    *)
(* inspects a sample, so distinct stamps expose every reordering.          *)
(* Frequencies are exact rationals with denominator BASELINE_WINDOWS,      *)
(* stored as their numerator: the only division of the classifier that is  *)
(* kept is "/ BASELINE_WINDOWS" of a sum of bin frequencies, which is then *)
(* exact; the drop comparison is cross-multiplied.  Float rounding is not  *)
(* modelled.                                                               *)
(*                                                                         *)
(* Braces.  As written, the block opened by "else if(f_ref > 0.0f){" on    *)
(* line 269 is closed by the brace of line 336, so lines 293-335 are       *)
(* nested in it and the function is left one brace short; by indentation   *)
(* the block ends after line 290 and lines 293-335 follow it in every      *)
(* cycle.  The file does not build either way; both readings are modelled  *)
(* and the variable parse, chosen once in Init, says which one runs.       *)
(***************************************************************************)
EXTENDS Integers, Sequences, FiniteSets, TLC

\* ------------------------------------------------------------------ bounds
\* window length (512 in the source, line 47), scaled down
BUFFER_SIZE == 4
\* number of timer interrupts served
MaxTicks == 6
\* number of analysis cycles started
MaxWindows == 9
\* largest pending notification value
MaxNotify == 2
\* largest spectral magnitude produced by the FFT kernel
MaxMag == 1
\* largest number of 'R' commands not turned into a cycle
MaxSpare == 2
\* number of windows in the runs checked for progress
LiveWindows == 2

\* --------------------------------------------------------------- constants
\* the circular buffer has the length of the window (both 512, lines 47-48)
EMG_BUFFER_LEN == BUFFER_SIZE
BASELINE_WINDOWS == 5
CONSECUTIVE_WINDOWS == 3
\* FATIGUE_THRESHOLD 0.15f as a fraction
FATIGUE_THRESHOLD_NUM == 15
FATIGUE_THRESHOLD_DEN == 100

\* number of spectral bins, BUFFER_SIZE/2
Half == BUFFER_SIZE \div 2

VARIABLES
    parse,               \* "nested" | "sequential": reading of lines 269-337
    main_pc,             \* position of app_main
    emg_task_handle,     \* "NULL" | "EMG"
    crashed,             \* xTaskNotifyGive was called on a NULL handle
    emg_buffer, write_index, sample_count,
    ticks,               \* number of ISR executions so far
    emg_window,
    pc,                  \* position of EMGTask
    idx,                 \* loop index i of the copy loop / of the send loop
    start,               \* local start of CircularBufferReadWindow
    notify,              \* notification value of EMGTask
    cb_pc,               \* position of read_data: "idle" | "delay"
    ble_cb,              \* messages sent by read_data for the current command
    emg_filt_fft,
    f_ref, f_median, window_counter, fatigue_consecutive, fatigue_detected,
    f_ref_established, f_ref_accum,
    msg_ble,             \* content of the local format buffer
    ble_out,             \* messages sent by EMGTask in the current cycle
    underrun,            \* CircularBufferReadWindow returned early this cycle
    rd_ticks,            \* history: ticks when the current snapshot began
    rd_raced,            \* history: a write happened during the current copy
    base_sum,            \* history: sum of the medians of the baseline windows
    drop_run,            \* history: length of the current run of drop windows
    had_run,             \* history: a run of CONSECUTIVE_WINDOWS has occurred
    f_mean,              \* mean frequency, the quotient <<num, den>>
    r_spare              \* history: 'R' commands received minus cycles started

bufvars == <<emg_buffer, write_index, sample_count, ticks>>
fatvars == <<f_ref, window_counter, fatigue_consecutive, fatigue_detected,
             f_ref_established, f_ref_accum>>
histvars == <<base_sum, drop_run, had_run>>
vars == <<parse, main_pc, emg_task_handle, crashed, emg_buffer, write_index,
          sample_count, ticks, emg_window, pc, idx, start, notify, cb_pc,
          ble_cb, emg_filt_fft, f_ref, f_median, window_counter,
          fatigue_consecutive, fatigue_detected, f_ref_established,
          f_ref_accum, msg_ble, ble_out, underrun, rd_ticks, rd_raced,
          base_sum, drop_run, had_run, f_mean, r_spare>>

Msg(tag, arg) == <<tag, arg>>
NoMsg == Msg("", 0)

\* frequency axis written by FFTFrequency(SAMPLE_FREQ, BUFFER_SIZE, f):
\* bin i is i * SAMPLE_FREQ / BUFFER_SIZE = i Hz, in units of 1/BASELINE_WINDOWS
f == [i \in 0..(Half - 1) |-> i * BASELINE_WINDOWS]

\* ------------------------------------------------------------------ buffer
CircularBufferWriteIndex(wi) == (wi + 1) % EMG_BUFFER_LEN

CircularBufferWriteCount_unbounded(sc) == sc + 1

CircularBufferWriteCount(sc) == IF sc < EMG_BUFFER_LEN THEN sc + 1 ELSE sc

ReadWindowStart_offbyone(wi) ==
    (wi - BUFFER_SIZE + 1 + EMG_BUFFER_LEN) % EMG_BUFFER_LEN

ReadWindowStart(wi) == (wi - BUFFER_SIZE + EMG_BUFFER_LEN) % EMG_BUFFER_LEN

ReadWindowSlot(st, i) == (st + i) % EMG_BUFFER_LEN

\* ---------------------------------------------------------------- spectrum
RECURSIVE SumMag(_, _)
SumMag(mag, n) == IF n = 0 THEN 0 ELSE SumMag(mag, n - 1) + mag[n - 1]

RECURSIVE SumFreqMag(_, _, _)
SumFreqMag(mag, freqs, n) ==
    IF n = 0 THEN 0
    ELSE SumFreqMag(mag, freqs, n - 1) + freqs[n - 1] * mag[n - 1]

\* as CalcMeanFreq, without the test of the denominator
CalcMeanFreq_unguarded(mag, freqs, len) ==
    <<SumFreqMag(mag, freqs, len), SumMag(mag, len)>>

\* the quotient num / den as the pair <<num, den>>; 0.0f is <<0, 1>>
CalcMeanFreq(mag, freqs, len) ==
    LET num == SumFreqMag(mag, freqs, len)
        den == SumMag(mag, len)
    IN  IF den > 0 THEN <<num, den>> ELSE <<0, 1>>

ReachesHalf_strict(accum, total) == 2 * accum > total

\* accum >= half, with half = total / 2.0f, cross-multiplied
ReachesHalf(accum, total) == 2 * accum >= total

RECURSIVE MedianScan(_, _, _, _, _)
MedianScan(mag, freqs, len, i, total) ==
    IF i >= len THEN freqs[len - 1]
    ELSE IF ReachesHalf(SumMag(mag, i + 1), total) THEN freqs[i]
    ELSE MedianScan(mag, freqs, len, i + 1, total)

CalcMedianFreq(mag, freqs, len) == MedianScan(mag, freqs, len, 0, SumMag(mag, len))

\* -------------------------------------------------------------- classifier
\* The classifier works on a record s of the fields it reads and writes:
\* f_ref, accum (f_ref_accum), est (f_ref_established), fc
\* (fatigue_consecutive), det (fatigue_detected), msg (msg_ble) and out (the
\* messages handed to BleSendString so far in this cycle).

\* sprintf(msg_ble, ...); BleSendString(msg_ble);
Send(s, m) == [s EXCEPT !.msg = m, !.out = Append(@, m)]

\* BleSendString(msg_ble) of line 290: the buffer as it was last formatted
Resend(s) == [s EXCEPT !.out = Append(@, s.msg)]

\* drop > FATIGUE_THRESHOLD, drop = (f_ref - f_median) / f_ref, f_ref > 0
DropExceeds(fr, med) ==
    (fr - med) * FATIGUE_THRESHOLD_DEN > FATIGUE_THRESHOLD_NUM * fr

\* fatigue_consecutive++ and the "Caida detectada" report
CountDrop(s, block) ==
    LET s1 == [s EXCEPT !.fc = @ + 1]
    IN  IF ~s1.det THEN Send(s1, Msg("caida", block)) ELSE s1

\* if (fatigue_consecutive >= CONSECUTIVE_WINDOWS && !fatigue_detected)
Latch(s, block) ==
    IF s.fc >= CONSECUTIVE_WINDOWS /\ ~s.det
    THEN Send([s EXCEPT !.det = TRUE], Msg("fatiga", block))
    ELSE s

Recover_undetect(s) == [s EXCEPT !.fc = 0, !.det = FALSE]

\* else { fatigue_consecutive = 0; }
Recover(s) == [s EXCEPT !.fc = 0]

\* lines 270-290, the body of "else if(f_ref > 0.0f)" up to the resend
EvalDropA(s, med) ==
    LET s1 == Send(s, Msg("drop", 1))
        s2 == IF DropExceeds(s.f_ref, med) THEN Latch(CountDrop(s1, 1), 1)
              ELSE s1
    IN  Resend(s2)

\* lines 311-333
EvalDropB(s, med) ==
    IF s.f_ref > 0
    THEN LET s1 == Send(s, Msg("drop", 2))
         IN  IF DropExceeds(s.f_ref, med) THEN Latch(CountDrop(s1, 2), 2)
             ELSE Recover(s1)
    ELSE s

\* lines 294-306
BaselineB(s, wc, med) ==
    LET s1 == IF wc <= BASELINE_WINDOWS
              THEN Send([s EXCEPT !.accum = @ + med], Msg("base", wc))
              ELSE s
    IN  IF wc = BASELINE_WINDOWS
        THEN Send([s1 EXCEPT !.f_ref = s1.accum \div BASELINE_WINDOWS,
                             !.est = TRUE], Msg("f_ref", 2))
        ELSE s1

\* as BlockB, with two independent tests instead of if / else
BlockB_fallthrough(s, wc, med) ==
    LET s1 == IF ~s.est THEN BaselineB(s, wc, med) ELSE s
    IN  IF s1.est THEN EvalDropB(s1, med) ELSE s1

\* lines 293-335: if(!f_ref_established){...} else {...}
BlockB(s, wc, med) ==
    IF ~s.est THEN BaselineB(s, wc, med) ELSE EvalDropB(s, med)

\* lines 259-267
BaselineA(s, wc, med) ==
    LET s1 == [s EXCEPT !.f_ref = @ + med]
    IN  IF wc = BASELINE_WINDOWS
        THEN Send([s1 EXCEPT !.f_ref = @ \div BASELINE_WINDOWS], Msg("f_ref", 1))
        ELSE s1

\* lines 259-337 under the reading p of the braces
Classify(s, wc, med, p) ==
    IF p = "nested"
    THEN IF wc <= BASELINE_WINDOWS THEN BaselineA(s, wc, med)
         ELSE IF s.f_ref > 0 THEN BlockB(EvalDropA(s, med), wc, med)
         ELSE s
    ELSE LET s1 == IF wc <= BASELINE_WINDOWS THEN BaselineA(s, wc, med)
                   ELSE IF s.f_ref > 0 THEN EvalDropA(s, med)
                   ELSE s
         IN  BlockB(s1, wc, med)

\* ------------------------------------------------------------------ state
MagVectors == [0..(Half - 1) -> 0..MaxMag]

Init ==
    /\ parse \in {"nested", "sequential"}
    /\ main_pc = "BleInit"
    /\ emg_task_handle = "NULL"
    /\ crashed = FALSE
    /\ emg_buffer = [i \in 0..(EMG_BUFFER_LEN - 1) |-> 0]
    /\ write_index = 0
    /\ sample_count = 0
    /\ ticks = 0
    /\ emg_window = [i \in 0..(BUFFER_SIZE - 1) |-> 0]
    /\ pc = "wait"
    /\ idx = 0
    /\ start = 0
    /\ notify = 0
    /\ cb_pc = "idle"
    /\ ble_cb = <<>>
    /\ emg_filt_fft = [i \in 0..(Half - 1) |-> 0]
    /\ f_ref = 0
    /\ f_median = 0
    /\ window_counter = 0
    /\ fatigue_consecutive = 0
    /\ fatigue_detected = FALSE
    /\ f_ref_established = FALSE
    /\ f_ref_accum = 0
    /\ msg_ble = NoMsg
    /\ ble_out = <<>>
    /\ underrun = FALSE
    /\ rd_ticks = 0
    /\ rd_raced = FALSE
    /\ base_sum = 0
    /\ drop_run = 0
    /\ had_run = FALSE
    /\ f_mean = <<0, 1>>
    /\ r_spare = 0

taskvars == <<emg_window, pc, idx, start, emg_filt_fft, f_median, fatvars,
              msg_ble, ble_out, underrun, rd_ticks, histvars>>

\* ---------------------------------------------------------------- app_main
\* BleInit(&ble_configuration): read_data is registered from here on
AppMain_BleInit ==
    /\ ~crashed
    /\ main_pc = "BleInit"
    /\ main_pc' = "TimerStart"
    /\ UNCHANGED <<f_mean, r_spare, parse, emg_task_handle, crashed, bufvars, taskvars,
                   rd_raced, notify, cb_pc, ble_cb>>

\* TimerInit(&emg_timer); TimerStart(TIMER_A): the ISR runs from here on
AppMain_TimerStart ==
    /\ ~crashed
    /\ main_pc = "TimerStart"
    /\ main_pc' = "xTaskCreate"
    /\ UNCHANGED <<f_mean, r_spare, parse, emg_task_handle, crashed, bufvars, taskvars,
                   rd_raced, notify, cb_pc, ble_cb>>

\* xTaskCreate(&EMGTask, "EMG", 4096, NULL, 5, &emg_task_handle)
AppMain_xTaskCreate ==
    /\ ~crashed
    /\ main_pc = "xTaskCreate"
    /\ main_pc' = "loop"
    /\ emg_task_handle' = "EMG"
    /\ UNCHANGED <<f_mean, r_spare, parse, crashed, bufvars, taskvars, rd_raced, notify,
                   cb_pc, ble_cb>>

\* ------------------------------------------------------------ EMG_TimerISR
\* AnalogInputReadSingle + CircularBufferWrite; the sample is the stamp of
\* this interrupt
EMG_TimerISR ==
    /\ ~crashed
    /\ main_pc \in {"xTaskCreate", "loop"}
    /\ ticks < MaxTicks
    /\ ticks' = ticks + 1
    /\ emg_buffer' = [emg_buffer EXCEPT ![write_index] = ticks + 1]
    /\ write_index' = CircularBufferWriteIndex(write_index)
    /\ sample_count' = CircularBufferWriteCount(sample_count)
    /\ rd_raced' = (rd_raced \/ pc = "copy")
    /\ UNCHANGED <<f_mean, r_spare, parse, main_pc, emg_task_handle, crashed, taskvars,
                   notify, cb_pc, ble_cb>>

\* --------------------------------------------------------------- read_data
\* data[0] == 'R': xTaskNotifyGive(emg_task_handle)
ReadData_R ==
    /\ ~crashed
    /\ main_pc # "BleInit"
    /\ cb_pc = "idle"
    /\ IF emg_task_handle = "NULL"
       THEN crashed' = TRUE /\ notify' = notify
       ELSE notify < MaxNotify /\ notify' = notify + 1 /\ crashed' = crashed
    /\ r_spare < MaxSpare
    /\ r_spare' = r_spare + 1
    /\ ble_cb' = <<>>
    /\ UNCHANGED <<f_mean, parse, main_pc, emg_task_handle, bufvars, taskvars,
                   rd_raced, cb_pc>>

\* as ReadData_B, with the 'R' branch executed as well
ReadData_B_notifies ==
    /\ ~crashed
    /\ main_pc # "BleInit"
    /\ cb_pc = "idle"
    /\ cb_pc' = "delay"
    /\ ble_cb' = <<Msg("HC", 0)>>
    /\ notify' = notify + 1
    /\ UNCHANGED <<f_mean, r_spare, parse, main_pc, emg_task_handle, crashed,
                   bufvars, taskvars, rd_raced>>

\* data[0] == 'B': BleSendString("*HC*"); vTaskDelay(50 ms)
ReadData_B ==
    /\ ~crashed
    /\ main_pc # "BleInit"
    /\ cb_pc = "idle"
    /\ cb_pc' = "delay"
    /\ ble_cb' = <<Msg("HC", 0)>>
    /\ UNCHANGED <<f_mean, r_spare, parse, main_pc, emg_task_handle, crashed, bufvars,
                   taskvars, rd_raced, notify>>

\* ... BleSendString("*TLimpieza completada*\n") after the delay
ReadData_B_Ack ==
    /\ ~crashed
    /\ cb_pc = "delay"
    /\ cb_pc' = "idle"
    /\ ble_cb' = Append(ble_cb, Msg("limpieza", 0))
    /\ UNCHANGED <<f_mean, r_spare, parse, main_pc, emg_task_handle, crashed, bufvars,
                   taskvars, rd_raced, notify>>

\* ----------------------------------------------------------------- EMGTask
\* as Task_Take, with the notification value decremented instead of cleared
Task_Take_decrement ==
    /\ ~crashed
    /\ emg_task_handle = "EMG"
    /\ pc = "wait"
    /\ notify > 0
    /\ window_counter < MaxWindows
    /\ notify' = notify - 1
    /\ r_spare' = r_spare - 1
    /\ pc' = "read"
    /\ ble_out' = <<>>
    /\ underrun' = FALSE
    /\ UNCHANGED <<f_mean, parse, main_pc, emg_task_handle, crashed, bufvars,
                   emg_window, idx, start, emg_filt_fft, f_median, fatvars,
                   msg_ble, rd_ticks, rd_raced, histvars, cb_pc, ble_cb>>

\* ulTaskNotifyTake(pdTRUE, portMAX_DELAY): returns once the notification
\* value is non-zero and clears it
Task_Take ==
    /\ ~crashed
    /\ emg_task_handle = "EMG"
    /\ pc = "wait"
    /\ notify > 0
    /\ window_counter < MaxWindows
    /\ notify' = 0
    /\ r_spare' = r_spare - 1
    /\ pc' = "read"
    /\ ble_out' = <<>>
    /\ underrun' = FALSE
    /\ UNCHANGED <<f_mean, parse, main_pc, emg_task_handle, crashed, bufvars,
                   emg_window, idx, start, emg_filt_fft, f_median, fatvars,
                   msg_ble, rd_ticks, rd_raced, histvars, cb_pc, ble_cb>>

\* as Task_ReadWindow, with the cycle given up when samples are missing
Task_ReadWindow_skips ==
    /\ ~crashed
    /\ pc = "read"
    /\ IF sample_count < BUFFER_SIZE
       THEN /\ underrun' = TRUE
            /\ pc' = "wait"
            /\ UNCHANGED <<start, idx, rd_ticks, rd_raced>>
       ELSE /\ start' = ReadWindowStart(write_index)
            /\ idx' = 0
            /\ pc' = "copy"
            /\ rd_ticks' = ticks
            /\ rd_raced' = FALSE
            /\ UNCHANGED underrun
    /\ UNCHANGED <<f_mean, r_spare, parse, main_pc, emg_task_handle, crashed,
                   bufvars, emg_window, emg_filt_fft, f_median, fatvars,
                   msg_ble, ble_out, histvars, notify, cb_pc, ble_cb>>

\* CircularBufferReadWindow(emg_window), lines 129-133
Task_ReadWindow ==
    /\ ~crashed
    /\ pc = "read"
    /\ IF sample_count < BUFFER_SIZE
       THEN /\ underrun' = TRUE
            /\ pc' = "process"
            /\ UNCHANGED <<start, idx, rd_ticks, rd_raced>>
       ELSE /\ start' = ReadWindowStart(write_index)
            /\ idx' = 0
            /\ pc' = "copy"
            /\ rd_ticks' = ticks
            /\ rd_raced' = FALSE
            /\ UNCHANGED underrun
    /\ UNCHANGED <<f_mean, r_spare, parse, main_pc, emg_task_handle, crashed, bufvars,
                   emg_window, emg_filt_fft, f_median, fatvars, msg_ble,
                   ble_out, histvars, notify, cb_pc, ble_cb>>

\* one iteration of the copy loop, lines 134-136
Task_Copy ==
    /\ ~crashed
    /\ pc = "copy"
    /\ emg_window' = [emg_window EXCEPT
                        ![idx] = emg_buffer[ReadWindowSlot(start, idx)]]
    /\ idx' = idx + 1
    /\ pc' = IF idx + 1 < BUFFER_SIZE THEN "copy" ELSE "process"
    /\ UNCHANGED <<f_mean, r_spare, parse, main_pc, emg_task_handle, crashed, bufvars, start,
                   emg_filt_fft, f_median, fatvars, msg_ble, ble_out,
                   underrun, rd_ticks, rd_raced, histvars, notify, cb_pc,
                   ble_cb>>

\* lines 222-231: the filter and FFT kernels (any magnitude vector), then
\* window_counter++
Task_Process ==
    /\ ~crashed
    /\ pc = "process"
    /\ \E mag \in MagVectors : emg_filt_fft' = mag
    /\ window_counter' = window_counter + 1
    /\ idx' = 0
    /\ pc' = "send_fft"
    /\ UNCHANGED <<f_mean, r_spare, parse, main_pc, emg_task_handle, crashed, bufvars,
                   emg_window, start, f_median, f_ref, fatigue_consecutive,
                   fatigue_detected, f_ref_established, f_ref_accum, msg_ble,
                   ble_out, underrun, rd_ticks, rd_raced, histvars, notify,
                   cb_pc, ble_cb>>

\* one iteration of the spectrum loop, lines 234-240
Task_SendFFT ==
    /\ ~crashed
    /\ pc = "send_fft"
    /\ msg_ble' = Msg("H", idx)
    /\ ble_out' = Append(ble_out, Msg("H", idx))
    /\ idx' = idx + 1
    /\ pc' = IF idx + 1 < Half THEN "send_fft" ELSE "metrics"
    /\ UNCHANGED <<f_mean, r_spare, parse, main_pc, emg_task_handle, crashed, bufvars,
                   emg_window, start, emg_filt_fft, f_median, fatvars,
                   underrun, rd_ticks, rd_raced, histvars, notify, cb_pc,
                   ble_cb>>

\* lines 244-251: the metrics and their report
Task_Metrics ==
    /\ ~crashed
    /\ pc = "metrics"
    /\ f_mean' = CalcMeanFreq(emg_filt_fft, f, Half)
    /\ f_median' = CalcMedianFreq(emg_filt_fft, f, Half)
    /\ msg_ble' = Msg("metrics", f_median')
    /\ ble_out' = Append(ble_out, Msg("metrics", f_median'))
    /\ pc' = "send_win"
    /\ UNCHANGED <<r_spare, parse, main_pc, emg_task_handle, crashed, bufvars,
                   emg_window, idx, start, emg_filt_fft, fatvars, underrun,
                   rd_ticks, rd_raced, histvars, notify, cb_pc, ble_cb>>

\* as Task_SendWindow, with the window number report left out
Task_SendWindow_skipped ==
    /\ ~crashed
    /\ pc = "send_win"
    /\ pc' = "classify"
    /\ UNCHANGED <<f_mean, r_spare, parse, main_pc, emg_task_handle, crashed,
                   bufvars, emg_window, idx, start, emg_filt_fft, f_median,
                   fatvars, msg_ble, ble_out, underrun, rd_ticks, rd_raced,
                   histvars, notify, cb_pc, ble_cb>>

\* lines 253-254: the window number report
Task_SendWindow ==
    /\ ~crashed
    /\ pc = "send_win"
    /\ msg_ble' = Msg("ventana", window_counter)
    /\ ble_out' = Append(ble_out, Msg("ventana", window_counter))
    /\ pc' = "classify"
    /\ UNCHANGED <<f_mean, r_spare, parse, main_pc, emg_task_handle, crashed, bufvars,
                   emg_window, idx, start, emg_filt_fft, f_median, fatvars,
                   underrun, rd_ticks, rd_raced, histvars, notify, cb_pc,
                   ble_cb>>

\* the window is a monitoring window whose drop exceeds the threshold
DropWindow ==
    /\ window_counter > BASELINE_WINDOWS
    /\ f_ref > 0
    /\ DropExceeds(f_ref, f_median)

\* the window is a monitoring window whose drop is within the threshold
RecoveryWindow ==
    /\ window_counter > BASELINE_WINDOWS
    /\ f_ref > 0
    /\ ~DropExceeds(f_ref, f_median)

\* lines 259-337: baseline and fatigue evaluation of the window
Task_Classify ==
    /\ ~crashed
    /\ pc = "classify"
    /\ LET s == [f_ref |-> f_ref, accum |-> f_ref_accum,
                 est |-> f_ref_established, fc |-> fatigue_consecutive,
                 det |-> fatigue_detected, msg |-> msg_ble, out |-> ble_out]
           r == Classify(s, window_counter, f_median, parse)
       IN  /\ f_ref' = r.f_ref
           /\ f_ref_accum' = r.accum
           /\ f_ref_established' = r.est
           /\ fatigue_consecutive' = r.fc
           /\ fatigue_detected' = r.det
           /\ msg_ble' = r.msg
           /\ ble_out' = r.out
    /\ base_sum' = IF window_counter <= BASELINE_WINDOWS
                   THEN base_sum + f_median ELSE base_sum
    /\ drop_run' = IF DropWindow THEN drop_run + 1
                   ELSE IF RecoveryWindow THEN 0 ELSE drop_run
    /\ had_run' = (had_run \/ drop_run' >= CONSECUTIVE_WINDOWS)
    /\ pc' = "wait"
    /\ UNCHANGED <<f_mean, r_spare, parse, main_pc, emg_task_handle, crashed, bufvars,
                   emg_window, idx, start, emg_filt_fft, f_median,
                   window_counter, underrun, rd_ticks, rd_raced, notify,
                   cb_pc, ble_cb>>

Next ==
    \/ AppMain_BleInit
    \/ AppMain_TimerStart
    \/ AppMain_xTaskCreate
    \/ EMG_TimerISR
    \/ ReadData_R
    \/ ReadData_B
    \/ ReadData_B_Ack
    \/ Task_Take
    \/ Task_ReadWindow
    \/ Task_Copy
    \/ Task_Process
    \/ Task_SendFFT
    \/ Task_Metrics
    \/ Task_SendWindow
    \/ Task_Classify

Spec == Init /\ [][Next]_vars

\* ================================================================== claims

\* number of windows whose cycle has run to its end
WindowsDone ==
    IF pc \in {"send_fft", "metrics", "send_win", "classify"}
    THEN window_counter - 1 ELSE window_counter

\* C1: fatigue_detected becomes true exactly on the window that completes
\* the first unbroken run of CONSECUTIVE_WINDOWS monitoring windows with
\* drop > FATIGUE_THRESHOLD: never after a shorter run, never by adding up
\* drop windows separated by a recovery window.
ClaimC1 == fatigue_detected <=> had_run

\* C2: the classification of a monitoring window with drop <=
\* FATIGUE_THRESHOLD sets fatigue_consecutive to 0 and leaves
\* fatigue_detected as it was.
ClaimC2 ==
    [][(pc = "classify" /\ pc' = "wait" /\ RecoveryWindow)
         => (fatigue_consecutive' = 0
             /\ fatigue_detected' = fatigue_detected)]_vars

\* C3: once CircularBufferReadWindow has returned for lack of samples, the
\* rest of the cycle changes no classifier field and sends no report.
ClaimC3 ==
    [][(underrun /\ pc # "wait")
         => (UNCHANGED fatvars /\ ble_out' = ble_out)]_vars

\* entries of emg_window written by the snapshot in progress or last done
Copied == IF pc = "copy" THEN idx ELSE BUFFER_SIZE

\* C4: with no write during the copy, entry i of the window is the sample
\* written BUFFER_SIZE - i writes before the snapshot began, i.e. the window
\* is the last BUFFER_SIZE samples, oldest first (rd_ticks >= BUFFER_SIZE
\* exactly when a snapshot has begun).
TheoremC4 ==
    (rd_ticks >= BUFFER_SIZE /\ ~rd_raced)
        => \A i \in 0..(Copied - 1) :
               emg_window[i] = rd_ticks - BUFFER_SIZE + 1 + i

\* a clean snapshot taken after the write cursor has wrapped, cursor not at 0
WitnessC4 ==
    /\ pc = "process"
    /\ ~underrun
    /\ ~rd_raced
    /\ rd_ticks > EMG_BUFFER_LEN
    /\ start # 0

\* C5: whatever writes interleave with the copy, a finished window is in
\* strictly increasing write order from index 1 on.
ClaimC5 ==
    (rd_ticks >= BUFFER_SIZE /\ pc # "copy")
        => \A i \in 1..(BUFFER_SIZE - 2) : emg_window[i] < emg_window[i + 1]

\* C6: no step takes fatigue_detected from true to false.
TheoremC6 == [][fatigue_detected => fatigue_detected']_vars

\* fatigue was detected and a later recovery window has reset the counter
WitnessC6 ==
    /\ fatigue_detected
    /\ fatigue_consecutive = 0
    /\ pc = "wait"

\* C7: f_ref is 0 while fewer than BASELINE_WINDOWS windows have been
\* processed and no window after the BASELINE_WINDOWS-th changes it.
ClaimC7 ==
    [][/\ WindowsDone < BASELINE_WINDOWS => f_ref = 0
       /\ WindowsDone >= BASELINE_WINDOWS => f_ref' = f_ref]_vars

\* C8: after the BASELINE_WINDOWS-th window f_ref is the mean of the baseline
\* medians and f_ref_established is true; before it the flag is false.
ClaimC8 ==
    /\ WindowsDone < BASELINE_WINDOWS => ~f_ref_established
    /\ WindowsDone >= BASELINE_WINDOWS
         => (f_ref_established /\ f_ref * BASELINE_WINDOWS = base_sum)

\* f_median holds the median of the spectrum in emg_filt_fft
MetricsDone == window_counter > 0 /\ pc \notin {"send_fft", "metrics"}

ZeroUpTo(mag, len) == \A i \in 0..(len - 1) : mag[i] = 0

\* C9 as stated: on an all-zero magnitude vector CalcMedianFreq returns the
\* last element of the frequency vector, for every length.
ClaimC9 ==
    MetricsDone =>
        /\ ZeroUpTo(emg_filt_fft, Half) => f_median = f[Half - 1]
        /\ \A len \in 1..Half :
               ZeroUpTo(emg_filt_fft, len)
                   => CalcMedianFreq(emg_filt_fft, f, len) = f[len - 1]

\* C9 amended: on an all-zero magnitude vector CalcMedianFreq returns the
\* first element of the frequency vector, for every length.
TheoremC9 ==
    MetricsDone =>
        /\ ZeroUpTo(emg_filt_fft, Half) => f_median = f[0]
        /\ \A len \in 1..Half :
               ZeroUpTo(emg_filt_fft, len)
                   => CalcMedianFreq(emg_filt_fft, f, len) = f[0]

\* the median of an all-zero spectrum of at least two bins has been computed
WitnessC9 ==
    /\ pc = "send_win"
    /\ Half >= 2
    /\ ZeroUpTo(emg_filt_fft, Half)

\* C10: once the first report of a cycle is out, no classifier field
\* changes any more in that cycle (they all had their post-window values).
ClaimC10 == [][ble_out # <<>> => UNCHANGED fatvars]_vars

\* C11: an 'R' command never changes the position or the results of a cycle
\* in progress, a cycle that starts leaves no trigger pending however many
\* commands preceded it, and the cycles started never outnumber the 'R'
\* commands received.
TheoremC11 ==
    [][/\ r_spare >= 0
       /\ r_spare' >= 0
       /\ notify' > notify
            => (pc' = pc /\ idx' = idx /\ ble_out' = ble_out
                /\ UNCHANGED fatvars)
       /\ (pc = "wait" /\ pc' = "read") => notify' = 0]_vars

\* a cycle has started on a notification that stood for two 'R' commands
WitnessC11 ==
    /\ pc = "read"
    /\ notify = 0
    /\ r_spare >= 1

TimerRunning ==
    /\ ~crashed
    /\ main_pc \in {"xTaskCreate", "loop"}
    /\ ticks < MaxTicks

\* C13: after k writes sample_count = min(k, EMG_BUFFER_LEN) and write_index =
\* k mod EMG_BUFFER_LEN, so both stay in range, and the write is enabled
\* whatever EMGTask is doing, a snapshot in progress included.
TheoremC13 ==
    /\ sample_count = IF ticks < EMG_BUFFER_LEN THEN ticks ELSE EMG_BUFFER_LEN
    /\ write_index = ticks % EMG_BUFFER_LEN
    /\ sample_count <= EMG_BUFFER_LEN
    /\ write_index < EMG_BUFFER_LEN
    /\ TimerRunning => ENABLED EMG_TimerISR

\* a write has landed during a snapshot after the cursor had wrapped
WitnessC13 ==
    /\ pc = "copy"
    /\ rd_raced
    /\ ticks > EMG_BUFFER_LEN

\* the reports of the fatigue evaluation: drop value, drop detected, alert
EvalTags == {"drop", "caida", "fatiga"}

\* a report of the fatigue evaluation has been sent in the current cycle
EvalReported == \E i \in 1..Len(ble_out) : ble_out[i][1] \in EvalTags

\* C14: while window_counter <= BASELINE_WINDOWS the consecutive-drop counter
\* is 0, fatigue_detected is false and no drop, drop-detected or
\* fatigue-detected report has been sent, whatever the medians are.
TheoremC14 ==
    window_counter <= BASELINE_WINDOWS
        => (fatigue_consecutive = 0 /\ ~fatigue_detected /\ ~EvalReported)

\* the baseline has just ended on a window whose median fell to 0
WitnessC14 ==
    /\ window_counter = BASELINE_WINDOWS
    /\ pc = "wait"
    /\ f_ref > 0
    /\ f_median = 0

\* the reports that depend on the phase of the classifier
PhaseTags == {"base", "f_ref", "drop", "caida", "fatiga"}

\* the i-th report of a cycle is the one the fixed order puts there
InOrder(i) ==
    IF i <= Half THEN ble_out[i] = Msg("H", i - 1)
    ELSE IF i = Half + 1 THEN ble_out[i] = Msg("metrics", f_median)
    ELSE IF i = Half + 2 THEN ble_out[i] = Msg("ventana", window_counter)
    ELSE ble_out[i][1] \in PhaseTags

\* C15: the reports of a cycle are the Half spectrum reports in ascending bin
\* order, then the metrics report, then the window number report, then only
\* phase-specific reports; a finished cycle has sent the first Half + 2.
TheoremC15 ==
    /\ \A i \in 1..Len(ble_out) : InOrder(i)
    /\ (pc = "wait" /\ window_counter > 0) => Len(ble_out) >= Half + 2

\* a finished monitoring cycle that sent phase-specific reports as well
WitnessC15 ==
    /\ pc = "wait"
    /\ window_counter > BASELINE_WINDOWS
    /\ Len(ble_out) > Half + 2

\* C16: the mean frequency is never a quotient by 0 and is 0 for a spectrum
\* of sum 0; a drop is computed (and reported) only with f_ref > 0; with
\* f_ref = 0 no drop is computed and fatigue_detected is false.
TheoremC16 ==
    /\ f_mean[2] # 0
    /\ (MetricsDone /\ SumMag(emg_filt_fft, Half) = 0) => f_mean = <<0, 1>>
    /\ EvalReported => f_ref > 0
    /\ f_ref <= 0 => ~fatigue_detected

\* monitoring with a reference that resolved to 0, on a spectrum of sum 0
WitnessC16 ==
    /\ pc = "wait"
    /\ window_counter > BASELINE_WINDOWS
    /\ f_ref = 0
    /\ ZeroUpTo(emg_filt_fft, Half)

\* the fatigue-detected alerts sent in the current cycle
Alerts == {i \in 1..Len(ble_out) : ble_out[i][1] = "fatiga"}

\* C17: a cycle sends the fatigue-detected alert at most once (and only on
\* the window that sets fatigue_detected), and no BleSendString call repeats
\* the message of the call before it.
ClaimC17 ==
    /\ Cardinality(Alerts) <= 1
    /\ Alerts # {} => fatigue_detected
    /\ \A i \in 1..(Len(ble_out) - 1) : ble_out[i] # ble_out[i + 1]

\* C18: xTaskNotifyGive is never called while emg_task_handle is NULL.
ClaimC18 == ~crashed

\* The progress of EMGTask is checked on the runs of the program that stay
\* within LiveWindows windows and one buffer of samples.
LiveBound == window_counter <= LiveWindows /\ ticks <= BUFFER_SIZE

\* the steps of the program that stay within LiveBound
Live_AppMain_BleInit == AppMain_BleInit /\ LiveBound'

Live_AppMain_TimerStart == AppMain_TimerStart /\ LiveBound'

Live_AppMain_xTaskCreate == AppMain_xTaskCreate /\ LiveBound'

Live_EMG_TimerISR == EMG_TimerISR /\ LiveBound'

Live_ReadData_R == ReadData_R /\ LiveBound'

Live_ReadData_B == ReadData_B /\ LiveBound'

Live_ReadData_B_Ack == ReadData_B_Ack /\ LiveBound'

Live_Task_Take == Task_Take /\ LiveBound'

Live_Task_ReadWindow == Task_ReadWindow /\ LiveBound'

Live_Task_Copy == Task_Copy /\ LiveBound'

Live_Task_Process == Task_Process /\ LiveBound'

Live_Task_SendFFT == Task_SendFFT /\ LiveBound'

Live_Task_Metrics == Task_Metrics /\ LiveBound'

Live_Task_SendWindow == Task_SendWindow /\ LiveBound'

Live_Task_Classify == Task_Classify /\ LiveBound'

LiveNext ==
    \/ Live_AppMain_BleInit
    \/ Live_AppMain_TimerStart
    \/ Live_AppMain_xTaskCreate
    \/ Live_EMG_TimerISR
    \/ Live_ReadData_R
    \/ Live_ReadData_B
    \/ Live_ReadData_B_Ack
    \/ Live_Task_Take
    \/ Live_Task_ReadWindow
    \/ Live_Task_Copy
    \/ Live_Task_Process
    \/ Live_Task_SendFFT
    \/ Live_Task_Metrics
    \/ Live_Task_SendWindow
    \/ Live_Task_Classify

\* the scheduler runs EMGTask whenever it is ready: every step of the task
\* that stays possible is eventually taken (BleSendString and vTaskDelay
\* return)
TaskFairness ==
    /\ WF_vars(Live_Task_Take)
    /\ WF_vars(Live_Task_ReadWindow)
    /\ WF_vars(Live_Task_Copy)
    /\ WF_vars(Live_Task_Process)
    /\ WF_vars(Live_Task_SendFFT)
    /\ WF_vars(Live_Task_Metrics)
    /\ WF_vars(Live_Task_SendWindow)
    /\ WF_vars(Live_Task_Classify)

LiveSpec == Init /\ [][LiveNext]_vars /\ TaskFairness

\* number of cycles started so far
CyclesStarted ==
    IF pc \in {"read", "copy", "process"}
    THEN window_counter + 1 ELSE window_counter

\* C19: when an 'R' command is pending for the existing task and c cycles
\* have started, a later cycle runs to its end (window_counter goes beyond c)
\* and the task is back at ulTaskNotifyTake.
TheoremC19 ==
    \A c \in 0..(LiveWindows - 1) :
        (emg_task_handle = "EMG" /\ notify > 0 /\ CyclesStarted = c)
            ~> (pc = "wait" /\ WindowsDone > c)

\* an 'R' command has arrived while a cycle was in progress
WitnessC19 ==
    /\ emg_task_handle = "EMG"
    /\ notify > 0
    /\ pc = "send_fft"

====
